---- MODULE Spec2Model ----
(***************************************************************************)
(* EditorContextMCP (src/EditorContextMCP.py): a Sublime Text plugin that  *)
(* serves a snapshot of the editor's windows, views and project folders    *)
(* over JSON-RPC on HTTP.                                                  *)
(*                                                                         *)
(* The module holds two state machines over one set of variables:          *)
(*   SpecEditor  the editor (the host the plugin queries) and              *)
(*               EditorContextState.get_state_snapshot;                    *)
(*   Spec        MCPServer.start/stop, the serve thread and                *)
(*               MCPRequestHandler.do_POST / handle_mcp_request.           *)
(***************************************************************************)
EXTENDS Integers, Sequences, FiniteSets, TLC

VARIABLES
    windows,           \* sublime.windows(): the editor's windows, in native order
    snapshot,          \* the value returned by the get_state_snapshot call made
                       \* for the request in hand, NoSnapshot when none was made
    running,           \* MCPServer.running
    server,            \* MCPServer.server: None or the TCPServer
    thread,            \* MCPServer.thread: None or the serve thread
    shutdown_request,  \* the TCPServer's shutdown flag, set by shutdown()
    is_shut_down,      \* the TCPServer's event, set when serve_forever returns
    pc,                \* where the serve thread is
    mainPc,            \* where the thread calling start() and stop() is
    lastReturn,        \* the path the last start() or stop() returned by
    log,               \* the last line the server printed on the console
    portBusy,          \* another process listens on the configured port
    pending,           \* connections waiting in the listener's backlog
    received,          \* the body do_POST has read for the request in hand
    reply,             \* the HTTP response written for the request in hand
    escaped,           \* the exception that left the handler of that request
    inHandler,         \* request handlers in progress
    build              \* a get_state_snapshot call in progress, step by step

editorVars == <<windows, snapshot, build>>
lifecycleVars == <<running, server, thread, shutdown_request, is_shut_down,
                   mainPc, lastReturn, log, portBusy>>
connVars == <<pc, pending, received, reply, escaped, inHandler>>
serverVars == <<lifecycleVars, connVars>>
vars == <<editorVars, serverVars>>

(***************************************************************************)
(* Bounds and input sets of the editor                                     *)
(***************************************************************************)
MaxWindows == 2      \* windows open at once
MaxRaceWindows == 2  \* windows sublime.windows() lists to a call that races the editor
MaxRaceViews == 2    \* views window.views() lists to such a call
SelMaxViews == 2     \* views with selections open at once, over all windows
MaxViews == 3        \* views open at once, over all windows
SrvMaxViews == 1     \* the same, while the server is modelled
MaxPending == 1      \* connections waiting to be accepted

None == "<None>"                      \* Python's None
Files == {"/a", "/b"}                 \* file paths
FolderLists == {<< >>, <<"/p">>}      \* window.folders() of a new window
Folders == {"/p", "/q", "/r"}         \* project folders
\* window.folders() of a window with a project: up to two folders
ProjectFolderLists ==
    {<< >>} \cup {<<f>> : f \in Folders} \cup {<<f, g>> : f, g \in Folders}
NoSnapshot == [none |-> TRUE]
NoBuild == [pc |-> "none"]        \* no step-by-step call in progress

\* A view: view.file_name() (None for an unsaved buffer) and view.sel(), the
\* selection regions, each a pair of (row, col) positions as view.rowcol
\* gives them.
View(f, s) == [file_name |-> f, sel |-> s]
Region(a, b) == [a |-> a, b |-> b]
ViewSels == {<< >>}
\* view.sel() of a view in use: a cursor at row 3, column 5; a selection from
\* (0, 0) to (1, 2) made forwards; the same selection made backwards; and
\* lists of two regions.
Cursor == Region(<<3, 5>>, <<3, 5>>)
Forward == Region(<<0, 0>>, <<1, 2>>)
Backward == Region(<<1, 2>>, <<0, 0>>)
SelLists == {<< >>, <<Cursor>>, <<Forward>>, <<Backward>>, <<Cursor, Forward>>, <<Forward, Cursor>>}

\* A window: window.folders(), window.views() and window.active_view(), the
\* index in views of the focused view (0: no view has the focus).
Window(fs, act, vs) == [folders |-> fs, active |-> act, views |-> vs]

RECURSIVE SumViews(_)
SumViews(ws) == IF ws = << >> THEN 0 ELSE Len(Head(ws).views) + SumViews(Tail(ws))

(***************************************************************************)
(* EditorContextState.get_state_snapshot                                   *)
(***************************************************************************)
Reverse(s) == [i \in 1..Len(s) |-> s[Len(s) + 1 - i]]

Contains(s, x) == \E i \in 1..Len(s) : s[i] = x

\* A (row, col) position precedes another.
PosLeq(p, q) == p[1] < q[1] \/ (p[1] = q[1] /\ p[2] <= q[2])
RegionBegin(r) == IF PosLeq(r.a, r.b) THEN r.a ELSE r.b
RegionEnd(r) == IF PosLeq(r.a, r.b) THEN r.b ELSE r.a
RegionEmpty(r) == r.a = r.b

\* The selection of a view taken from its last region.
LastRegionSelection(view) ==
    IF Len(view.sel) > 0
    THEN LET region == view.sel[Len(view.sel)] IN
         IF ~RegionEmpty(region)
         THEN [kind |-> "range",
               start |-> [line |-> RegionBegin(region)[1] + 1, column |-> RegionBegin(region)[2]],
               end |-> [line |-> RegionEnd(region)[1] + 1, column |-> RegionEnd(region)[2]]]
         ELSE [kind |-> "cursor",
               cursor |-> [line |-> RegionBegin(region)[1] + 1, column |-> RegionBegin(region)[2]]]
    ELSE [kind |-> "null"]

\* lines 44-65: the selection of a view, from its first region only
SelectionInfo(view) ==
    IF Len(view.sel) > 0
    THEN LET region == view.sel[1] IN
         IF ~RegionEmpty(region)
         THEN [kind |-> "range",
               start |-> [line |-> RegionBegin(region)[1] + 1, column |-> RegionBegin(region)[2]],
               end |-> [line |-> RegionEnd(region)[1] + 1, column |-> RegionEnd(region)[2]]]
         ELSE [kind |-> "cursor",
               cursor |-> [line |-> RegionBegin(region)[1] + 1, column |-> RegionBegin(region)[2]]]
    ELSE [kind |-> "null"]

\* lines 67-71
FileObj(view) == [path |-> view.file_name, selection |-> SelectionInfo(view)]

\* Every folder of the window is appended, listed before or not.
AppendFolders(project_folders, folders) == project_folders \o folders

\* lines 29-31: append each folder not yet in project_folders
RECURSIVE MergeFolders(_, _)
MergeFolders(project_folders, folders) ==
    IF folders = << >> THEN project_folders
    ELSE MergeFolders(IF Contains(project_folders, Head(folders))
                      THEN project_folders
                      ELSE Append(project_folders, Head(folders)),
                      Tail(folders))

\* Every view with a file is recorded, seen before or not.
EveryFileView(acc, view) == view.file_name # None

\* A view is recorded when its file name, or its lack of one, is new.
AnyUnseenView(acc, view) == view.file_name \notin acc.seen_files

\* line 40: a view is recorded when it has a file name not seen before
NotSeenView(acc, view) ==
    view.file_name # None /\ view.file_name \notin acc.seen_files

\* line 74: the list a recorded file goes to
IsActiveFile(file_name, active_file_in_window) == file_name = active_file_in_window

\* lines 39-77: one view of the loop over window.views()
VisitView(acc, active_file_in_window, view) ==
    IF NotSeenView(acc, view)
    THEN IF IsActiveFile(view.file_name, active_file_in_window)
         THEN [acc EXCEPT !.seen_files = @ \cup {view.file_name},
                          !.activeFiles = Append(@, FileObj(view))]
         ELSE [acc EXCEPT !.seen_files = @ \cup {view.file_name},
                          !.otherFiles = Append(@, FileObj(view))]
    ELSE acc

\* lines 38-77: the loop over window.views()
RECURSIVE VisitViews(_, _, _)
VisitViews(acc, active_file_in_window, views) ==
    IF views = << >> THEN acc
    ELSE VisitViews(VisitView(acc, active_file_in_window, Head(views)),
                    active_file_in_window, Tail(views))

\* lines 34-35: active_view.file_name() if active_view else None
ActiveFileInWindow(window) ==
    IF window.active = 0 THEN None ELSE window.views[window.active].file_name

\* lines 27-77: one window of the loop over the windows
VisitWindow(acc, window) ==
    VisitViews([acc EXCEPT !.projectFolders = MergeFolders(@, window.folders)],
               ActiveFileInWindow(window), window.views)

RECURSIVE VisitWindows(_, _)
VisitWindows(acc, ws) ==
    IF ws = << >> THEN acc
    ELSE VisitWindows(VisitWindow(acc, Head(ws)), Tail(ws))

\* The windows in native order, not reversed.
NativeOrder(ws) == ws

\* line 26: reversed(sublime.windows())
WindowOrder(ws) == Reverse(ws)

\* lines 20-84
get_state_snapshot(ws) ==
    LET acc == VisitWindows([activeFiles |-> << >>, otherFiles |-> << >>,
                             projectFolders |-> << >>, seen_files |-> {}],
                            WindowOrder(ws))
    IN [activeFiles |-> acc.activeFiles,
        otherFiles |-> acc.otherFiles,
        projectFolders |-> acc.projectFolders,
        lastUpdated |-> "now"]

(***************************************************************************)
(* JSON values and the bodies a client can send                            *)
(***************************************************************************)
\* A JSON value, as json.loads gives it: None, a str, an int, a list, a dict.
JNull == [t |-> "null"]
JStr(x) == [t |-> "str", v |-> x]
JNum(x) == [t |-> "num", v |-> x]         \* x: the digits of the number
JArray == [t |-> "array"]
Absent == [t |-> "absent"]                \* a key the dict does not hold

StateUri == "sublime-context://state"

\* The params of a request: a dict with or without "uri".
ParamsObj(uri) == [t |-> "obj", uri |-> uri]
\* A request dict with or without "method", "params" and "id".
RequestObj(m, ps, id) == [t |-> "obj", method |-> m, params |-> ps, id |-> id]

Methods == {Absent, JNull, JStr("initialize"), JStr("resources/list"),
            JStr("resources/read"), JStr("foo/bar")}
ParamsValues == {Absent, JNull, ParamsObj(Absent), ParamsObj(JStr(StateUri)),
                 ParamsObj(JStr("sublime-context://other"))}
Ids == {Absent, JNum("1"), JStr("x")}

\* The bytes of a body: not UTF-8, UTF-8 text that is not JSON, or the
\* encoding of a JSON value.
BadUtf8 == [kind |-> "bad_utf8"]
NotJson == [kind |-> "not_json"]
JsonBody(value) == [kind |-> "json", value |-> value]
Bodies ==
    {BadUtf8, NotJson, JsonBody(JNull), JsonBody(JArray), JsonBody(JNum("1")), JsonBody(JStr("x"))}
    \cup {JsonBody(RequestObj(m, ps, id)) : m \in Methods, ps \in ParamsValues, id \in Ids}

\* The outcome of a call: a value returned or an exception raised.
Return(x) == [raised |-> "none", value |-> x]
Raise(exc, msg) == [raised |-> exc, message |-> msg]

\* dict.get(key) and dict.get(key, default) on a request or params dict
DictGet(d, key, default) == IF d[key] = Absent THEN default ELSE d[key]

\* "{}".format(value)
Format(value) ==
    CASE value.t = "null" -> "None"
      [] value.t = "str" -> value.v
      [] value.t = "num" -> value.v
      [] OTHER -> "?"

\* json.dumps(value, indent=2): the text of a value, one text per value
Dumps(value) == [json |-> value]

(***************************************************************************)
(* MCPRequestHandler                                                       *)
(***************************************************************************)
\* Any uri is served the state.
AnyUriIsState(uri) == TRUE

\* line 206
IsStateUri(uri) == uri = JStr(StateUri)

\* The content is the snapshot of the editor as it was when the plugin was
\* loaded.
StartupResourceContent(uri, ws) ==
    IF IsStateUri(uri)
    THEN [out |-> Return(Dumps(get_state_snapshot(<<Window(<<"/p">>, 0, << >>)>>))),
          built |-> TRUE]
    ELSE [out |-> Raise("ValueError", <<"Unknown resource URI: ", Format(uri)>>),
          built |-> FALSE]

\* lines 204-209: get_resource_content; "built" tells whether
\* get_state_snapshot was called
get_resource_content(uri, ws) ==
    IF IsStateUri(uri)
    THEN [out |-> Return(Dumps(get_state_snapshot(ws))), built |-> TRUE]
    ELSE [out |-> Raise("ValueError", <<"Unknown resource URI: ", Format(uri)>>),
          built |-> FALSE]

\* lines 145-158
InitializeResponse(request_id) ==
    [jsonrpc |-> "2.0",
     result |-> [protocolVersion |-> "2024-11-05",
                 capabilities |-> [resources |-> << >>],
                 serverInfo |-> [name |-> "sublime-editor-context", version |-> "0.1.0"]],
     id |-> request_id]

\* lines 161-174
ResourcesListResponse(request_id) ==
    [jsonrpc |-> "2.0",
     result |-> [resources |-> <<[uri |-> StateUri,
                                  name |-> "Editor State",
                                  description |-> "Complete editor state with active files per window and other open files",
                                  mimeType |-> "application/json"]>>],
     id |-> request_id]

\* lines 180-192
ResourcesReadResponse(uri, content, request_id) ==
    [jsonrpc |-> "2.0",
     result |-> [contents |-> <<[uri |-> uri, mimeType |-> "application/json",
                                 text |-> content]>>],
     id |-> request_id]

\* An unknown method answered as an internal error.
MethodNotFoundAsInternal(method, request_id) ==
    [jsonrpc |-> "2.0",
     error |-> [code |-> -32603, message |-> <<"Method not found: ", Format(method)>>],
     id |-> request_id]

\* lines 195-202
MethodNotFoundResponse(method, request_id) ==
    [jsonrpc |-> "2.0",
     error |-> [code |-> -32601, message |-> <<"Method not found: ", Format(method)>>],
     id |-> request_id]

\* type(value).__name__
TypeName(value) ==
    CASE value.t = "null" -> "NoneType"
      [] value.t = "str" -> "str"
      [] value.t = "num" -> "int"
      [] value.t = "array" -> "list"
      [] OTHER -> "dict"

\* value.get fails on anything but a dict
AttributeError(value) ==
    Raise("AttributeError", <<TypeName(value), " object has no attribute 'get'">>)

\* lines 138-202: handle_mcp_request on a dict
handle_mcp_request(request, ws) ==
    LET method == DictGet(request, "method", JNull)
        params == DictGet(request, "params", ParamsObj(Absent))
        request_id == DictGet(request, "id", JNull)
    IN CASE method = JStr("initialize") ->
              [out |-> Return(InitializeResponse(request_id)), built |-> FALSE]
         [] method = JStr("resources/list") ->
              [out |-> Return(ResourcesListResponse(request_id)), built |-> FALSE]
         [] method = JStr("resources/read") ->
              IF params.t # "obj"
              THEN [out |-> AttributeError(params), built |-> FALSE]
              ELSE LET uri == DictGet(params, "uri", JNull)
                       content == get_resource_content(uri, ws)
                   IN IF content.out.raised # "none"
                      THEN content
                      ELSE [out |-> Return(ResourcesReadResponse(uri, content.out.value, request_id)),
                            built |-> content.built]
         [] OTHER ->
              [out |-> Return(MethodNotFoundResponse(method, request_id)), built |-> FALSE]

\* line 117: json.loads(body)
json_loads(body) ==
    IF body.kind = "json" THEN Return(body.value)
    ELSE Raise("JSONDecodeError", <<"Expecting value">>)

\* The id of an error response is always null.
ErrorIdNull(request) == JNull

\* line 131: request.get("id") if isinstance(request, dict) else None
ErrorId(request) ==
    IF request.t = "obj" THEN DictGet(request, "id", JNull) ELSE JNull

\* The error response carries the code of an unknown method.
ErrorResponseMethodNotFound(message, request) ==
    [jsonrpc |-> "2.0",
     error |-> [code |-> -32601, message |-> message],
     id |-> ErrorId(request)]

\* lines 125-132
ErrorResponse(message, request) ==
    [jsonrpc |-> "2.0",
     error |-> [code |-> -32603, message |-> message],
     id |-> ErrorId(request)]

NoResponse == [status |-> 0]
Written(status, body) == [status |-> status, body |-> body]

\* What one run of lines 116-136 does: the response it writes (NoResponse
\* when it writes none), the exception that leaves do_POST ("none" when none
\* does) and whether get_state_snapshot was called.
Handled(response, exc, built) ==
    [response |-> response, escaped |-> exc, built |-> built]

\* lines 116-136: the try statement of do_POST on a decoded body.  When
\* json.loads raises, the local name "request" was never bound, and line 131
\* of the except clause raises UnboundLocalError in its turn.
do_POST_try(body, ws) ==
    LET loaded == json_loads(body) IN
    IF loaded.raised # "none"
    THEN Handled(NoResponse, "UnboundLocalError", FALSE)
    ELSE LET request == loaded.value IN
         IF request.t # "obj"
         THEN Handled(Written(500, ErrorResponse(AttributeError(request).message, request)),
                      "none", FALSE)
         ELSE LET r == handle_mcp_request(request, ws) IN
              IF r.out.raised # "none"
              THEN Handled(Written(500, ErrorResponse(r.out.message, request)), "none", r.built)
              ELSE Handled(Written(200, r.out.value), "none", r.built)

(***************************************************************************)
(* The editor: the user opens, closes and focuses windows and views.  Any  *)
(* step of the editor ends the life of the snapshot last returned.         *)
(***************************************************************************)
RemoveAt(s, k) == [i \in 1..(Len(s) - 1) |-> IF i < k THEN s[i] ELSE s[i + 1]]

NewWindow ==
    /\ Len(windows) < MaxWindows
    /\ \E fs \in FolderLists :
         windows' = Append(windows, Window(fs, 0, << >>))
    /\ snapshot' = NoSnapshot
    /\ UNCHANGED build
    /\ UNCHANGED serverVars

CloseWindow ==
    /\ \E w \in 1..Len(windows) : windows' = RemoveAt(windows, w)
    /\ snapshot' = NoSnapshot
    /\ UNCHANGED build
    /\ UNCHANGED serverVars

\* A view is opened at the end of a window's views; it may or may not take
\* the focus.
OpenView(maxViews) ==
    /\ SumViews(windows) < maxViews
    /\ \E w \in 1..Len(windows), f \in Files \cup {None}, s \in ViewSels, focus \in BOOLEAN :
         windows' = [windows EXCEPT ![w].views = Append(@, View(f, s)),
                                    ![w].active = IF focus THEN Len(windows[w].views) + 1 ELSE @]
    /\ snapshot' = NoSnapshot
    /\ UNCHANGED build
    /\ UNCHANGED serverVars

\* A view is closed; when it had the focus, the focus goes to any of the
\* views left, or to none.
CloseView ==
    /\ \E w \in 1..Len(windows) : \E v \in 1..Len(windows[w].views) :
         \E a \in 0..(Len(windows[w].views) - 1) :
           /\ windows[w].active < v => a = windows[w].active
           /\ windows[w].active > v => a = windows[w].active - 1
           /\ windows' = [windows EXCEPT ![w].views = RemoveAt(@, v), ![w].active = a]
    /\ snapshot' = NoSnapshot
    /\ UNCHANGED build
    /\ UNCHANGED serverVars

\* The focus of a window moves to another of its views, or to none.
FocusView ==
    /\ \E w \in 1..Len(windows) : \E a \in 0..Len(windows[w].views) :
         /\ windows[w].active # a
         /\ windows' = [windows EXCEPT ![w].active = a]
    /\ snapshot' = NoSnapshot
    /\ UNCHANGED build
    /\ UNCHANGED serverVars

\* A view on a file is opened with some selection.
OpenFileView ==
    /\ SumViews(windows) < SelMaxViews
    /\ \E w \in 1..Len(windows), f \in Files, s \in SelLists, focus \in BOOLEAN :
         windows' = [windows EXCEPT ![w].views = Append(@, View(f, s)),
                                    ![w].active = IF focus THEN Len(windows[w].views) + 1 ELSE @]
    /\ snapshot' = NoSnapshot
    /\ UNCHANGED build
    /\ UNCHANGED serverVars

\* The user moves the cursor or changes the selection of a view.
Select ==
    /\ \E w \in 1..Len(windows) : \E v \in 1..Len(windows[w].views) : \E s \in SelLists :
         /\ windows[w].views[v].sel # s
         /\ windows' = [windows EXCEPT ![w].views[v].sel = s]
    /\ snapshot' = NoSnapshot
    /\ UNCHANGED build
    /\ UNCHANGED serverVars

\* A window without a project is opened.
NewPlainWindow ==
    /\ Len(windows) < MaxWindows
    /\ windows' = Append(windows, Window(<< >>, 0, << >>))
    /\ snapshot' = NoSnapshot
    /\ UNCHANGED build
    /\ UNCHANGED serverVars

\* A window is opened on a project.
NewProjectWindow ==
    /\ Len(windows) < MaxWindows
    /\ \E fs \in ProjectFolderLists :
         windows' = Append(windows, Window(fs, 0, << >>))
    /\ snapshot' = NoSnapshot
    /\ UNCHANGED build
    /\ UNCHANGED serverVars

\* The folders of a window's project change.
SetFolders ==
    /\ \E w \in 1..Len(windows), fs \in ProjectFolderLists :
         /\ windows[w].folders # fs
         /\ windows' = [windows EXCEPT ![w].folders = fs]
    /\ snapshot' = NoSnapshot
    /\ UNCHANGED build
    /\ UNCHANGED serverVars

\* line 207: get_resource_content calls get_state_snapshot.
BuildSnapshot ==
    /\ snapshot' = get_state_snapshot(windows)
    /\ UNCHANGED <<windows, build>>
    /\ UNCHANGED serverVars

(***************************************************************************)
(* get_state_snapshot on the serve thread while the editor's own thread    *)
(* changes windows and views.  The call holds its locals in "build".       *)
(* Between two queries of the host the editor may have opened, closed,     *)
(* moved or refocused anything, so each query answers with any value the   *)
(* host can give, whatever the queries before it answered.                 *)
(***************************************************************************)
RaceSels == {<< >>, <<Cursor>>}

\* lines 20-26: the locals are made and sublime.windows() is asked
RaceBegin ==
    /\ build.pc \in {"none", "done"}
    /\ \E n \in 0..MaxRaceWindows :
         build' = [pc |-> "window", windowsLeft |-> n, viewsLeft |-> 0,
                   active_file_in_window |-> None,
                   acc |-> [activeFiles |-> << >>, otherFiles |-> << >>,
                            projectFolders |-> << >>, seen_files |-> {}]]
    /\ snapshot' = NoSnapshot
    /\ UNCHANGED windows
    /\ UNCHANGED serverVars

\* lines 28-31: window.folders() of the next window, merged
RaceFolders ==
    /\ build.pc = "window"
    /\ build.windowsLeft > 0
    /\ \E folders \in ProjectFolderLists :
         build' = [build EXCEPT !.pc = "active",
                                !.windowsLeft = @ - 1,
                                !.acc.projectFolders = MergeFolders(@, folders)]
    /\ UNCHANGED <<windows, snapshot>>
    /\ UNCHANGED serverVars

\* lines 34-35: window.active_view() and its file_name()
RaceActiveView ==
    /\ build.pc = "active"
    /\ \E f \in Files \cup {None} :
         build' = [build EXCEPT !.pc = "views", !.active_file_in_window = f]
    /\ UNCHANGED <<windows, snapshot>>
    /\ UNCHANGED serverVars

\* line 38: window.views()
RaceViews ==
    /\ build.pc = "views"
    /\ \E n \in 0..MaxRaceViews :
         build' = [build EXCEPT !.pc = "view", !.viewsLeft = n]
    /\ UNCHANGED <<windows, snapshot>>
    /\ UNCHANGED serverVars

\* lines 39-77: file_name() and sel() of the next view, and its entry
RaceView ==
    /\ build.pc = "view"
    /\ build.viewsLeft > 0
    /\ \E f \in Files \cup {None}, sel \in RaceSels :
         build' = [build EXCEPT !.viewsLeft = @ - 1,
                                !.acc = VisitView(@, build.active_file_in_window, View(f, sel))]
    /\ UNCHANGED <<windows, snapshot>>
    /\ UNCHANGED serverVars

\* line 38: the views of the window are exhausted
RaceViewsDone ==
    /\ build.pc = "view"
    /\ build.viewsLeft = 0
    /\ build.windowsLeft > 0
    /\ build' = [build EXCEPT !.pc = "window"]
    /\ UNCHANGED <<windows, snapshot>>
    /\ UNCHANGED serverVars

\* lines 79-84: the windows are exhausted and the snapshot is returned
RaceReturn ==
    /\ \/ build.pc = "window" /\ build.windowsLeft = 0
       \/ build.pc = "view" /\ build.viewsLeft = 0 /\ build.windowsLeft = 0
    /\ snapshot' = [activeFiles |-> build.acc.activeFiles,
                    otherFiles |-> build.acc.otherFiles,
                    projectFolders |-> build.acc.projectFolders,
                    lastUpdated |-> "now"]
    /\ build' = [build EXCEPT !.pc = "done"]
    /\ UNCHANGED windows
    /\ UNCHANGED serverVars

(***************************************************************************)
(* MCPServer: start() and stop() on the calling thread                     *)
(***************************************************************************)
NoRequest == [kind |-> "none"]

\* line 215-219: MCPServer.__init__; no connection, nothing printed
ServerInit ==
    /\ running = FALSE
    /\ server = None
    /\ thread = None
    /\ shutdown_request = FALSE
    /\ is_shut_down = FALSE
    /\ pc = "no_thread"
    /\ mainPc = "idle"
    /\ lastReturn = "none"
    /\ log = "none"
    /\ portBusy \in BOOLEAN
    /\ pending = 0
    /\ received = NoRequest
    /\ reply = NoResponse
    /\ escaped = "none"
    /\ inHandler = 0

\* start() goes on whatever the running flag says.
GuardIgnored == FALSE

\* line 223: if self.running
AlreadyRunning == running

\* line 227: TCPServer((host, port), handler) binds and listens.  It fails
\* when the port is taken: by another process, or by the listener of the
\* TCPServer made by an earlier start(), which nothing ever closes (stop()
\* calls shutdown(), not server_close(), and self.server keeps the object).
BindSucceeds == ~portBusy /\ server = None

\* The flag is set before the bind is tried, and stays set when it fails.
BindFailureRunningSet ==
    /\ running' = TRUE
    /\ log' = "failed"
    /\ lastReturn' = "start_failed"
    /\ UNCHANGED <<server, thread, shutdown_request, is_shut_down, mainPc, portBusy>>
    /\ UNCHANGED connVars

\* lines 236-237: the except clause; the exception does not leave start()
BindFailure ==
    /\ log' = "failed"
    /\ lastReturn' = "start_failed"
    /\ UNCHANGED <<running, server, thread, shutdown_request, is_shut_down, mainPc, portBusy>>
    /\ UNCHANGED connVars

\* lines 227-235: the listener, the flag, the thread
BindSuccess ==
    /\ server' = "TCPServer"
    /\ shutdown_request' = FALSE
    /\ is_shut_down' = FALSE
    /\ running' = TRUE
    /\ thread' = "Thread"
    /\ pc' = "started"
    /\ log' = "started"
    /\ lastReturn' = "start_ok"
    /\ UNCHANGED <<mainPc, portBusy, pending, received, reply, escaped, inHandler>>

\* lines 221-237
Start ==
    /\ mainPc = "idle"
    /\ IF AlreadyRunning
       THEN /\ lastReturn' = "start_noop"
            /\ UNCHANGED <<running, server, thread, shutdown_request, is_shut_down,
                           mainPc, log, portBusy>>
            /\ UNCHANGED connVars
       ELSE IF BindSucceeds THEN BindSuccess ELSE BindFailure
    /\ UNCHANGED editorVars

\* lines 244-247: stop() up to its wait in shutdown(); with no server it
\* returns at once
StopCall ==
    /\ mainPc = "idle"
    /\ IF server # None
       THEN /\ shutdown_request' = TRUE
            /\ mainPc' = "in_shutdown"
            /\ UNCHANGED lastReturn
       ELSE /\ lastReturn' = "stop_noop"
            /\ UNCHANGED <<shutdown_request, mainPc>>
    /\ UNCHANGED <<running, server, thread, is_shut_down, log, portBusy>>
    /\ UNCHANGED connVars
    /\ UNCHANGED editorVars

\* shutdown() sets the flag and returns without waiting.
ShutdownNoWait == TRUE

\* line 247: shutdown() waits for the event serve_forever sets on return
ShutdownReturns == is_shut_down

\* lines 247-249: shutdown() returns once serve_forever has returned
StopReturn ==
    /\ mainPc = "in_shutdown"
    /\ ShutdownReturns
    /\ running' = FALSE
    /\ log' = "stopped"
    /\ lastReturn' = "stop_done"
    /\ mainPc' = "idle"
    /\ UNCHANGED <<server, thread, shutdown_request, is_shut_down, portBusy>>
    /\ UNCHANGED connVars
    /\ UNCHANGED editorVars

\* Another process takes the port, or gives it back.
OtherProcessBinds ==
    /\ ~portBusy
    /\ server = None
    /\ portBusy' = TRUE
    /\ UNCHANGED <<running, server, thread, shutdown_request, is_shut_down,
                   mainPc, lastReturn, log>>
    /\ UNCHANGED connVars
    /\ UNCHANGED editorVars

OtherProcessReleases ==
    /\ portBusy
    /\ portBusy' = FALSE
    /\ UNCHANGED <<running, server, thread, shutdown_request, is_shut_down,
                   mainPc, lastReturn, log>>
    /\ UNCHANGED connVars
    /\ UNCHANGED editorVars

(***************************************************************************)
(* The serve thread: serve_forever and one request at a time               *)
(***************************************************************************)
\* lines 239-242: _run_server enters serve_forever
ThreadRun ==
    /\ pc = "started"
    /\ is_shut_down' = FALSE
    /\ pc' = "select"
    /\ UNCHANGED <<running, server, thread, shutdown_request, mainPc, lastReturn, log, portBusy>>
    /\ UNCHANGED <<pending, received, reply, escaped, inHandler>>
    /\ UNCHANGED editorVars

\* serve_forever sees the shutdown flag and returns; the thread ends
LoopExit ==
    /\ pc = "select"
    /\ shutdown_request
    /\ shutdown_request' = FALSE
    /\ is_shut_down' = TRUE
    /\ pc' = "exited"
    /\ UNCHANGED <<running, server, thread, mainPc, lastReturn, log, portBusy>>
    /\ UNCHANGED <<pending, received, reply, escaped, inHandler>>
    /\ UNCHANGED editorVars

\* A client connects to the listener.
ClientConnect ==
    /\ server # None
    /\ pending < MaxPending
    /\ pending' = pending + 1
    /\ UNCHANGED lifecycleVars
    /\ UNCHANGED <<pc, received, reply, escaped, inHandler>>
    /\ UNCHANGED editorVars

\* The loop takes connections while a handler runs on a thread of its own.
LoopFreeWhileHandling == pc \in {"select", "read", "stalled", "parse"}

\* line 227: a TCPServer runs the handler on the serve thread itself, so the
\* loop is back at its select only when the handler has returned
LoopAtSelect == pc = "select"

\* serve_forever finds the flag clear and a connection ready
LoopReady ==
    /\ LoopAtSelect
    /\ ~shutdown_request
    /\ pending > 0
    /\ pc' = "accept"
    /\ UNCHANGED lifecycleVars
    /\ UNCHANGED <<pending, received, reply, escaped, inHandler>>
    /\ UNCHANGED editorVars

\* lines 99-109: the connection is accepted and carries a GET
DoGet ==
    /\ pc = "accept"
    /\ pending' = pending - 1
    /\ received' = NoRequest
    /\ escaped' = "none"
    /\ \E path \in {"/health", "/"} :
         reply' = IF path = "/health"
                     THEN Written(200, [status |-> "ok"])
                     ELSE Written(404, << >>)
    /\ pc' = "select"
    /\ UNCHANGED inHandler
    /\ snapshot' = NoSnapshot
    /\ UNCHANGED <<windows, build>>
    /\ UNCHANGED lifecycleVars

\* line 111: the connection is accepted and carries a POST
AcceptPost ==
    /\ pc = "accept"
    /\ pending' = pending - 1
    /\ received' = NoRequest
    /\ reply' = NoResponse
    /\ escaped' = "none"
    /\ pc' = "read"
    /\ inHandler' = inHandler + 1
    /\ snapshot' = NoSnapshot
    /\ UNCHANGED <<windows, build>>
    /\ UNCHANGED lifecycleVars

\* line 114: .decode('utf-8') of the bytes read
Decoded(body) ==
    /\ IF body = BadUtf8
       THEN /\ escaped' = "UnicodeDecodeError"
            /\ pc' = "select"
            /\ inHandler' = inHandler - 1
            /\ UNCHANGED received
       ELSE /\ received' = body
            /\ pc' = "parse"
            /\ UNCHANGED <<escaped, inHandler>>

\* lines 113-114: the Content-Length header and the body.  A header that is
\* no integer raises ValueError, outside the try statement; no header reads
\* zero bytes.
PostRead ==
    /\ pc = "read"
    /\ \E header \in {"absent", "exact", "invalid"} :
         CASE header = "invalid" ->
                /\ escaped' = "ValueError"
                /\ pc' = "select"
                /\ inHandler' = inHandler - 1
                /\ UNCHANGED received
           [] header = "absent" -> Decoded(NotJson)
           [] header = "exact" -> \E body \in Bodies : Decoded(body)
    /\ UNCHANGED <<pending, reply>>
    /\ UNCHANGED lifecycleVars
    /\ UNCHANGED editorVars

\* line 114: the header announces more bytes than the client sends, and
\* rfile.read waits for them
ClientStalls ==
    /\ pc = "read"
    /\ pc' = "stalled"
    /\ UNCHANGED <<pending, received, reply, escaped, inHandler>>
    /\ UNCHANGED lifecycleVars
    /\ UNCHANGED editorVars

\* line 114: the stalled client disconnects, and rfile.read returns the
\* bytes it has
ClientDisconnects ==
    /\ pc = "stalled"
    /\ \E body \in Bodies : Decoded(body)
    /\ UNCHANGED <<pending, reply>>
    /\ UNCHANGED lifecycleVars
    /\ UNCHANGED editorVars

\* lines 116-136
PostHandle ==
    /\ pc = "parse"
    /\ LET h == do_POST_try(received, windows) IN
         /\ reply' = h.response
         /\ escaped' = h.escaped
         /\ snapshot' = IF h.built THEN get_state_snapshot(windows) ELSE snapshot
    /\ pc' = "select"
    /\ inHandler' = inHandler - 1
    /\ UNCHANGED <<pending, received>>
    /\ UNCHANGED <<windows, build>>
    /\ UNCHANGED lifecycleVars

EditorInit ==
    /\ windows = << >>
    /\ snapshot = NoSnapshot
    /\ build = NoBuild
    /\ ServerInit

EditorNext ==
    \/ NewWindow
    \/ CloseWindow
    \/ OpenView(MaxViews)
    \/ CloseView
    \/ FocusView
    \/ BuildSnapshot

SpecEditor == EditorInit /\ [][EditorNext]_vars

\* The editor with windows on projects, and the snapshot of their folders.
FoldersNext ==
    \/ NewProjectWindow
    \/ CloseWindow
    \/ SetFolders
    \/ BuildSnapshot

SpecFolders == EditorInit /\ [][FoldersNext]_vars

\* The editor with views that carry selections, and the snapshot of them.
SelectionNext ==
    \/ NewPlainWindow
    \/ CloseWindow
    \/ OpenFileView
    \/ Select
    \/ CloseView
    \/ FocusView
    \/ BuildSnapshot

SpecSelection == EditorInit /\ [][SelectionNext]_vars

\* get_state_snapshot, query by query, against an editor that changes.
RaceNext ==
    \/ RaceBegin
    \/ RaceFolders
    \/ RaceActiveView
    \/ RaceViews
    \/ RaceView
    \/ RaceViewsDone
    \/ RaceReturn

SpecRace == EditorInit /\ [][RaceNext]_vars

\* The server, loaded in an editor with one window.
Init ==
    /\ windows = <<Window(<<"/p">>, 0, << >>)>>
    /\ snapshot = NoSnapshot
    /\ build = NoBuild
    /\ ServerInit

Next ==
    \/ Start
    \/ StopCall
    \/ StopReturn
    \/ OtherProcessBinds
    \/ OtherProcessReleases
    \/ ThreadRun
    \/ LoopExit
    \/ ClientConnect
    \/ LoopReady
    \/ DoGet
    \/ AcceptPost
    \/ PostRead
    \/ ClientStalls
    \/ ClientDisconnects
    \/ PostHandle
    \/ OpenView(SrvMaxViews)
    \/ CloseView
    \/ FocusView

Spec == Init /\ [][Next]_vars

(***************************************************************************)
(* Properties of the snapshot                                              *)
(***************************************************************************)
HasSnapshot == snapshot # NoSnapshot

\* The path of the file of the view that has the focus in a window, None
\* when no view has it or the view has no file.
FocusedPath(win) ==
    IF win.active \in 1..Len(win.views) THEN win.views[win.active].file_name ELSE None

Paths(files) == [i \in 1..Len(files) |-> files[i].path]

\* How many times x occurs in the sequence s.
Occurrences(s, x) == Cardinality({i \in 1..Len(s) : s[i] = x})

\* The paths held by at least one view of some window.
HeldPaths ==
    UNION {{windows[w].views[v].file_name : v \in 1..Len(windows[w].views)} :
              w \in 1..Len(windows)} \ {None}

\* The windows, in the order of window enumeration, that list a view of path p.
Holders(p) ==
    SelectSeq(Reverse(windows), LAMBDA win : \E v \in 1..Len(win.views) : win.views[v].file_name = p)

\* C2: every file path held by at least one view appears exactly once in
\* activeFiles followed by otherFiles: never zero times, never in both lists,
\* never twice in one list.
C2_DedupExactlyOnce ==
    HasSnapshot =>
        \A p \in HeldPaths :
            Occurrences(Paths(snapshot.activeFiles) \o Paths(snapshot.otherFiles), p) = 1

\* Two windows hold the same path, and a snapshot has been built.
C2_Witness ==
    /\ HasSnapshot
    /\ \E w1, w2 \in 1..Len(windows) :
         /\ w1 # w2
         /\ \E v1 \in 1..Len(windows[w1].views), v2 \in 1..Len(windows[w2].views) :
              /\ windows[w1].views[v1].file_name = "/a"
              /\ windows[w2].views[v2].file_name = "/a"
    /\ Occurrences(Paths(snapshot.activeFiles) \o Paths(snapshot.otherFiles), "/a") = 1

\* C7: activeFiles holds an entry for each window whose focused view has a
\* backing file: the path of every such window's focused view appears in
\* activeFiles.
C7_FocusedPathsAreActive ==
    HasSnapshot =>
        \A w \in 1..Len(windows) :
            FocusedPath(windows[w]) # None =>
                Contains(Paths(snapshot.activeFiles), FocusedPath(windows[w]))

\* What the code does where C7 fails: the path of a window's focused view is
\* in activeFiles exactly when the first window of the enumeration (reverse
\* native order) that lists a view of that path has that path focused;
\* otherwise the path is in otherFiles.
ActiveIffFirstHolderFocuses ==
    HasSnapshot =>
        \A w \in 1..Len(windows) :
            LET p == FocusedPath(windows[w]) IN
            p # None =>
                /\ Contains(Paths(snapshot.activeFiles), p)
                     <=> FocusedPath(Head(Holders(p))) = p
                /\ Contains(Paths(snapshot.otherFiles), p)
                     <=> FocusedPath(Head(Holders(p))) # p

\* C8: activeFiles maps injectively and order-preservingly into the windows
\* taken in reverse native order: entry i is the focused-view path of window
\* f[i] of that order, f strictly increasing.
C8_ActiveFilesFollowWindows ==
    HasSnapshot =>
        LET act == Paths(snapshot.activeFiles)
            rev == Reverse(windows)
        IN \E f \in [1..Len(act) -> 1..Len(rev)] :
              /\ \A i \in 1..Len(act) : FocusedPath(rev[f[i]]) = act[i]
              /\ \A i, j \in 1..Len(act) : i < j => f[i] < f[j]

\* Two windows with different focused files: the file of the native-last
\* window comes first.
C8_Witness ==
    /\ HasSnapshot
    /\ Len(windows) = 2
    /\ FocusedPath(windows[1]) = "/a"
    /\ FocusedPath(windows[2]) = "/b"
    /\ Paths(snapshot.activeFiles) = <<"/b", "/a">>

(***************************************************************************)
(* Properties of the request handler                                       *)
(***************************************************************************)
\* The handler of a POST has returned: it was given a body, or an exception
\* left it.
PostReturned ==
    /\ pc \notin {"read", "stalled", "parse"}
    /\ (escaped # "none" \/ received # NoRequest)

\* The request dict of the POST in hand, when its body is a JSON object.
IsObjectRequest == received.kind = "json" /\ received.value.t = "obj"
Req == received.value
IdOf(req) == IF req.id = Absent THEN JNull ELSE req.id

\* The reply is an error envelope of this status and code.
IsErrorReply(status, code) ==
    /\ reply # NoResponse
    /\ reply.status = status
    /\ DOMAIN reply.body = {"jsonrpc", "error", "id"}
    /\ reply.body.error.code = code

\* C1: a POST whose body is not JSON is answered 500 with a JSON-RPC error
\* of code -32603 and id null.
C1_MalformedBodyAnswered500 ==
    (PostReturned /\ received = NotJson) =>
        (IsErrorReply(500, -32603) /\ reply.body.id = JNull)

\* C3: for a JSON-object request, whatever the dispatch branch, the response
\* carries the request's id unchanged, and null when the request has none.
C3_IdEchoed ==
    (PostReturned /\ IsObjectRequest) =>
        /\ reply # NoResponse
        /\ reply.body.id = IdOf(Req)

\* An unknown resource is read with id "x", and the 500 reply carries "x".
C3_Witness ==
    /\ PostReturned
    /\ IsObjectRequest
    /\ Req.method = JStr("resources/read")
    /\ Req.params = ParamsObj(JStr("sublime-context://other"))
    /\ Req.id = JStr("x")
    /\ reply # NoResponse
    /\ reply.status = 500
    /\ reply.body.id = JStr("x")

\* C4: every POST receives a response: when the Content-Length header or
\* the UTF-8 decoding of the body fails, the reply is a 500 with a JSON-RPC
\* error of code -32603, and no failure leaves the handler.
C4_EveryPostAnswered ==
    PostReturned =>
        /\ escaped = "none"
        /\ reply # NoResponse
        /\ received = NoRequest => IsErrorReply(500, -32603)

KnownMethods == {JStr("initialize"), JStr("resources/list"), JStr("resources/read")}

\* C5: a JSON-object request with any other method, or none, is answered 200
\* with a JSON-RPC error of code -32601 whose message holds the method as
\* rendered (None when there is none), and no snapshot is built.
C5_UnknownMethod ==
    (PostReturned /\ IsObjectRequest /\ Req.method \notin KnownMethods) =>
        /\ IsErrorReply(200, -32601)
        /\ reply.body.error.message =
             <<"Method not found: ",
               IF Req.method \in {Absent, JNull} THEN "None" ELSE Req.method.v>>
        /\ snapshot = NoSnapshot

\* A request without a method has been answered, the message holding "None".
C5_Witness ==
    /\ PostReturned
    /\ IsObjectRequest
    /\ Req.method = Absent
    /\ Req.id = JNum("1")
    /\ IsErrorReply(200, -32601)
    /\ reply.body.error.message[2] = "None"
    /\ reply.body.id = JNum("1")

\* C6: resources/read of anything but the state uri (no uri included) is
\* answered 500 with a JSON-RPC error of code -32603 and the request's id,
\* and get_state_snapshot is not called.
C6_UnknownResource ==
    (/\ PostReturned
     /\ IsObjectRequest
     /\ Req.method = JStr("resources/read")
     /\ Req.params # ParamsObj(JStr(StateUri))) =>
        /\ IsErrorReply(500, -32603)
        /\ reply.body.id = IdOf(Req)
        /\ snapshot = NoSnapshot

\* resources/read without params has been answered 500.
C6_Witness ==
    /\ PostReturned
    /\ IsObjectRequest
    /\ Req.method = JStr("resources/read")
    /\ Req.params = Absent
    /\ Req.id = JStr("x")
    /\ IsErrorReply(500, -32603)
    /\ reply.body.error.message = <<"Unknown resource URI: ", "None">>
    /\ reply.body.id = JStr("x")

(***************************************************************************)
(* Properties of start() and stop()                                        *)
(***************************************************************************)
\* C9: start() while the server runs changes nothing: not the listener, the
\* serve thread or the running flag, and it opens and prints nothing.
C9_StartWhileRunningIsNoOp ==
    [][(running /\ Start) =>
          UNCHANGED <<running, server, thread, shutdown_request, is_shut_down,
                      log, portBusy, connVars, editorVars>>]_vars

\* start() has returned by its first line from a running server.
C9_Witness ==
    /\ lastReturn = "start_noop"
    /\ running
    /\ server # None
    /\ thread # None

\* C10: when the listener cannot bind the port, start() returns without
\* raising, the server stays not-running and no serve thread is started.
C10_BindFailureLeavesStopped ==
    [][(~running /\ ~BindSucceeds /\ Start) =>
          /\ ~running'
          /\ lastReturn' = "start_failed"
          /\ UNCHANGED <<server, thread, pc>>]_vars

\* start() has failed to bind, before any server came up and after one was
\* stopped.
C10_Witness ==
    /\ lastReturn = "start_failed"
    /\ ~running
    /\ pc \in {"no_thread", "exited"}

\* stop() returns with this step.
StopReturnsNow == (StopCall \/ StopReturn) /\ mainPc' = "idle"

\* C11: in every lifecycle state stop() returns without raising, leaving the
\* server marked not-running and the accept loop no longer serving; with no
\* server made (never started, or the start failed) it changes nothing.
C11_StopLeavesStopped ==
    [][StopReturnsNow =>
          /\ lastReturn' \in {"stop_noop", "stop_done"}
          /\ ~running'
          /\ pc' \in {"no_thread", "exited"}
          /\ server = None =>
               UNCHANGED <<running, server, thread, shutdown_request, is_shut_down,
                           mainPc, log, portBusy, connVars, editorVars>>]_vars

\* stop() has returned from a server that was running: the flag is down and
\* serve_forever has returned.
C11_Witness ==
    /\ lastReturn = "stop_done"
    /\ log = "stopped"
    /\ ~running
    /\ server # None
    /\ pc = "exited"

\* The steps the plugin's own threads take, whatever the clients do.
ServerStep ==
    \/ ThreadRun
    \/ LoopExit
    \/ LoopReady
    \/ DoGet
    \/ AcceptPost
    \/ PostRead
    \/ PostHandle
    \/ StopReturn

\* C12: stop() does not wait on a slow client: while stop() waits in
\* shutdown(), the server can always take a step of its own towards the
\* return of stop(), whether or not the client sends or disconnects.
C12_StopDoesNotWaitOnClient ==
    mainPc = "in_shutdown" => ENABLED ServerStep

\* C13: after a successful start() and a stop(), a start() on the same port,
\* which no other process holds, brings the server up again.
C13_RestartComesUp ==
    [][(lastReturn = "stop_done" /\ ~portBusy /\ Start) =>
          (running' /\ lastReturn' = "start_ok")]_vars

\* C14: requests are handled one at a time on the serve thread: never two
\* handlers in progress, and a connection is taken up only when the handler
\* of the one before has returned.
C14_OneRequestAtATime ==
    /\ inHandler <= 1
    /\ pc = "accept" => inHandler = 0
    /\ inHandler = 1 <=> pc \in {"read", "stalled", "parse"}

\* A second connection waits in the backlog while the handler of the first
\* is at work.
C14_Witness ==
    /\ inHandler = 1
    /\ pending > 0
    /\ pc = "parse"
    /\ reply = NoResponse

(***************************************************************************)
(* Properties of projectFolders                                            *)
(***************************************************************************)
\* The folders of all windows, in the order the windows are enumerated
\* (reverse native order), each window's folders as it lists them.
RECURSIVE Flatten(_)
Flatten(lists) == IF lists = << >> THEN << >> ELSE Head(lists) \o Flatten(Tail(lists))
AllFolders == Flatten([i \in 1..Len(windows) |-> windows[Len(windows) + 1 - i].folders])

Range(seq) == {seq[i] : i \in 1..Len(seq)}
FirstIndex(seq, x) == CHOOSE i \in 1..Len(seq) : seq[i] = x /\ \A k \in 1..(i - 1) : seq[k] # x

\* C15: projectFolders holds no path twice, holds exactly the folders of all
\* windows, and orders them by first occurrence in the enumeration.
C15_ProjectFoldersUnion ==
    HasSnapshot =>
        LET pf == snapshot.projectFolders IN
        /\ \A i, j \in 1..Len(pf) : i # j => pf[i] # pf[j]
        /\ Range(pf) = Range(AllFolders)
        /\ \A i, j \in 1..Len(pf) : i < j => FirstIndex(AllFolders, pf[i]) < FirstIndex(AllFolders, pf[j])

\* Two windows list the same two folders in opposite orders; the order of
\* the native-last window is the one kept.
C15_Witness ==
    /\ HasSnapshot
    /\ Len(windows) = 2
    /\ windows[1].folders = <<"/p", "/q">>
    /\ windows[2].folders = <<"/q", "/p">>
    /\ snapshot.projectFolders = <<"/q", "/p">>

(***************************************************************************)
(* Properties of selections and of paths held by several views             *)
(***************************************************************************)
Entries == snapshot.activeFiles \o snapshot.otherFiles

\* The views of all windows that hold path p.
ViewsOf(p) ==
    UNION {{windows[w].views[v] : v \in {u \in 1..Len(windows[w].views) :
                                           windows[w].views[u].file_name = p}} :
              w \in 1..Len(windows)}

\* What the selection of an entry is to be for a view with regions sel:
\* only sel[1] counts, rows are reported 1-based, columns as they are.
Earlier(p, q) == IF p[1] # q[1] THEN p[1] < q[1] ELSE p[2] < q[2]
ExpectedSelection(sel) ==
    IF sel = << >> THEN [kind |-> "null"]
    ELSE IF sel[1].a = sel[1].b
         THEN [kind |-> "cursor", cursor |-> [line |-> sel[1].a[1] + 1, column |-> sel[1].a[2]]]
         ELSE LET from == IF Earlier(sel[1].a, sel[1].b) THEN sel[1].a ELSE sel[1].b
                  to == IF Earlier(sel[1].a, sel[1].b) THEN sel[1].b ELSE sel[1].a
              IN [kind |-> "range",
                  start |-> [line |-> from[1] + 1, column |-> from[2]],
                  end |-> [line |-> to[1] + 1, column |-> to[2]]]

\* C16: the selection of every entry is determined by the first region of a
\* view of its path: null without regions, a cursor for an empty first region,
\* a start and an end for a non-empty one, lines 1-based; further regions
\* never count.
C16_SelectionFromFirstRegion ==
    HasSnapshot =>
        \A i \in 1..Len(Entries) :
            \E view \in ViewsOf(Entries[i].path) :
                Entries[i].selection = ExpectedSelection(view.sel)

\* The only view of /a has a cursor at row 3, column 5 followed by a second
\* region, the only view of /b a selection made backwards; the snapshot shows
\* the cursor at line 4 and the selection from line 1 to line 2.
C16_Witness ==
    /\ HasSnapshot
    /\ ViewsOf("/a") = {View("/a", <<Cursor, Forward>>)}
    /\ ViewsOf("/b") = {View("/b", <<Backward>>)}
    /\ \E i, j \in 1..Len(Entries) :
         /\ Entries[i] = [path |-> "/a",
                          selection |-> [kind |-> "cursor", cursor |-> [line |-> 4, column |-> 5]]]
         /\ Entries[j] = [path |-> "/b",
                          selection |-> [kind |-> "range",
                                         start |-> [line |-> 1, column |-> 0],
                                         end |-> [line |-> 2, column |-> 2]]]

\* The first view of path p in the order of enumeration: the first window of
\* the reverse native order that holds p, and its first view of p.
FirstView(p) ==
    LET win == Head(Holders(p))
        v == CHOOSE u \in 1..Len(win.views) :
                 /\ win.views[u].file_name = p
                 /\ \A k \in 1..(u - 1) : win.views[k].file_name # p
    IN win.views[v]

IsStateRead ==
    /\ IsObjectRequest
    /\ Req.method = JStr("resources/read")
    /\ Req.params = ParamsObj(JStr(StateUri))

\* C17: every resources/read of the state uri is answered 200 with a result
\* of one contents item that echoes the uri and whose text is the snapshot
\* of the editor as it is when the request is handled, never one built for
\* an earlier request.
C17_ReadReflectsCurrentState ==
    [][(pc = "parse" /\ IsStateRead /\ pc' = "select") =>
          /\ reply' = Written(200,
                 [jsonrpc |-> "2.0",
                  result |-> [contents |-> <<[uri |-> JStr(StateUri),
                                              mimeType |-> "application/json",
                                              text |-> [json |-> get_state_snapshot(windows)]]>>],
                  id |-> IdOf(Req)])
          /\ LET text == reply'.body.result.contents[1].text.json IN
               /\ Range(Paths(text.activeFiles \o text.otherFiles)) = HeldPaths
               /\ \A i \in 1..Len(text.activeFiles) :
                    \E w \in 1..Len(windows) : FocusedPath(windows[w]) = text.activeFiles[i].path]_vars

\* A read of the state has been answered with the view opened since the
\* plugin was loaded.
C17_Witness ==
    /\ PostReturned
    /\ IsStateRead
    /\ reply # NoResponse
    /\ reply.status = 200
    /\ Paths(reply.body.result.contents[1].text.json.activeFiles) = <<"/a">>
    /\ FocusedPath(windows[1]) = "/a"

\* C20: every response written for a POST carries exactly one of result and
\* error; a 200 carries a result or an error of code -32601, a 500 an error
\* of code -32603 and never a result; a JSON body that is no object is
\* answered 500 with id null.
C20_ResultXorError ==
    (PostReturned /\ received # NoRequest /\ reply # NoResponse) =>
        LET keys == DOMAIN reply.body IN
        /\ ("result" \in keys) # ("error" \in keys)
        /\ reply.status \in {200, 500}
        /\ reply.status = 200 => ("result" \in keys \/ reply.body.error.code = -32601)
        /\ reply.status = 500 => ("result" \notin keys /\ reply.body.error.code = -32603)
        /\ (received.kind = "json" /\ received.value.t # "obj") =>
               (reply.status = 500 /\ reply.body.id = JNull)

\* A body that is a JSON array has been answered 500 with id null.
C20_Witness ==
    /\ PostReturned
    /\ received = JsonBody(JArray)
    /\ IsErrorReply(500, -32603)
    /\ reply.body.id = JNull
    /\ reply.body.error.message = <<"list", " object has no attribute 'get'">>

(***************************************************************************)
(* Properties of a snapshot built while the editor changes                 *)
(***************************************************************************)
\* C19: whatever the editor does between the queries of a build, the
\* snapshot holds no path twice across activeFiles and otherFiles, no entry
\* without a path, and no project folder twice.
C19_RacedSnapshotWellFormed ==
    HasSnapshot =>
        LET paths == Paths(snapshot.activeFiles \o snapshot.otherFiles)
            pf == snapshot.projectFolders
        IN /\ \A i, j \in 1..Len(paths) : i # j => paths[i] # paths[j]
           /\ \A i \in 1..Len(paths) : paths[i] # None
           /\ \A i, j \in 1..Len(pf) : i # j => pf[i] # pf[j]

\* A build has returned whose last window answered /a for its focused view
\* and then listed no view of /a: the editor changed between the two
\* queries.  The snapshot holds /b alone, and two folders.
C19_Witness ==
    /\ HasSnapshot
    /\ build.pc = "done"
    /\ build.active_file_in_window = "/a"
    /\ "/a" \notin build.acc.seen_files
    /\ snapshot.activeFiles = << >>
    /\ Paths(snapshot.otherFiles) = <<"/b">>
    /\ Len(snapshot.projectFolders) = 2

====
